---- MODULE Spec2Model ----
(***************************************************************************)
(* Model of m3u8-downloader-rs (src/src/main.rs): main, the variant        *)
(* selection, key resolution, the bounded-concurrency segment download     *)
(* with retry, and the index-ordered merge of download_and_merge.          *)
(***************************************************************************)
EXTENDS Integers, Sequences, FiniteSets, TLC

\* ---------------------------------------------------------------- bounds
MaxSegs == 2
MaxK == 2
MaxRetries == 2
MaxVariants == 2

\* ------------------------------------------------------- program constants
\* width of the zero padding in format!("seg_{:05}.ts", idx)
PadWidth == 5

VARIABLES
    urlIsHttp,    \* args.url.starts_with("http")
    concurrency,  \* args.concurrency
    retries,      \* args.retries
    keep_temp,    \* args.keep_temp
    pc,           \* position of main / download_and_merge
    jobErr,       \* error main terminated with ("none" while running / on Ok)
    variants,     \* master.variants
    best,         \* index of the selected variant (0 = not selected)
    segments,     \* playlist.segments of the media playlist handed to download_and_merge
    key,          \* the resolved Option<(key bytes, iv)>
    keyGets,      \* number of GETs issued for the key
    permits,      \* free permits of sem
    next,         \* number of segments already pulled from the stream (spawned)
    inq,          \* join handles held by buffer_unordered
    tasks,        \* the collected Vec of task results, in the order they were yielded
    tpc,          \* per task: position of the spawned future
    attempt,      \* per task: loop variable attempt
    terr,         \* per task: the error the task returned ("none" if not failed)
    buf,          \* per task: the decrypted (or passed through) bytes
    usedKey,      \* per task: the key the task decrypted with
    gets,         \* per task: number of client.get(..).send() performed
    sleeps,       \* per task: number of retry delays performed
    writes,       \* per task: number of fs::write of the temp store
    mutexOwner,   \* holder of the completed mutex (0 = free, i = task i)
    completed,    \* the shared counter
    local,        \* per task: value of *count read under the lock
    positions,    \* values passed to pb.set_position, in order
    fsys,         \* the files on disk: name -> bytes
    mi,           \* merge loop index i
    removed,      \* indices whose temp store the merge loop removed
    dlStarted,    \* download_and_merge has been called
    dlOk,         \* download_and_merge returned Ok
    mediaFetches, \* number of nested media playlists fetched by main
    converted,    \* convert_to_mp4 has been invoked
    ready,        \* FuturesUnordered's queue of join handles due to be polled
    streamDone,   \* the fused segment stream has returned None
    firstErr,     \* the task that returned Err first (0 = none, i + 1 = task i)
    errSeg,       \* the task whose error download_and_merge returned (0 = none)
    delays        \* the lengths (ms) of the retry delays performed so far

vars == <<urlIsHttp, concurrency, retries, keep_temp, pc, jobErr, variants, best,
          segments, key, keyGets, permits, next, inq, tasks, tpc, attempt, terr,
          buf, usedKey, gets, sleeps, writes, mutexOwner, completed, local,
          positions, fsys, mi, removed, dlStarted, dlOk, mediaFetches, converted,
          ready, streamDone, firstErr, errSeg, delays>>

argVars == <<urlIsHttp, concurrency, retries, keep_temp>>
mainVars == <<variants, best, mediaFetches, converted>>
keyVars == <<key, keyGets>>
ctlVars == <<next, inq, tasks>>
taskVars == <<tpc, attempt, terr, buf, usedKey, gets, sleeps, writes, local>>
cntVars == <<mutexOwner, completed, positions>>
mergeVars == <<mi, removed>>
doneVars == <<ready, firstErr>>
auxVars == <<streamDone, errSeg, delays>>

\* ------------------------------------------------------------ data model
NoKey == [present |-> FALSE, uri |-> "none", iv |-> "none"]
KeyAbsOk == [present |-> TRUE, uri |-> "abs", iv |-> "hex16"]
\* m3u8_rs::Key as far as the code reads it: uri (absolute / relative / missing)
\* and iv (32 hex digits / other even number of hex digits / not hex / missing)
Keys ==
    {NoKey, KeyAbsOk,
     [present |-> TRUE, uri |-> "rel", iv |-> "hex16"],
     [present |-> TRUE, uri |-> "abs", iv |-> "hexshort"],
     [present |-> TRUE, uri |-> "abs", iv |-> "nonhex"],
     [present |-> TRUE, uri |-> "none", iv |-> "hex16"],
     [present |-> TRUE, uri |-> "abs", iv |-> "none"]}

\* m3u8_rs::MediaSegment as far as the code reads it
SegKinds == [rel : BOOLEAN, key : Keys]

SeqsUpTo(S, n) == UNION {[1..m -> S] : m \in 0..n}

SegLists ==
    {s \in SeqsUpTo(SegKinds, MaxSegs) :
        \A j \in 2..Len(s) : s[j].key \in {NoKey, KeyAbsOk}}

NoRes == [w |-> 0, h |-> 0, some |-> FALSE]
Res(w, h) == [w |-> w, h |-> h, some |-> TRUE]
\* m3u8_rs::VariantStream as far as the code reads it
VariantPool ==
    {[res |-> Res(1280, 720), bandwidth |-> 1000, rel |-> TRUE],
     [res |-> Res(1920, 1080), bandwidth |-> 800, rel |-> TRUE],
     [res |-> Res(854, 480), bandwidth |-> 3000, rel |-> FALSE],
     [res |-> NoRes, bandwidth |-> 3000, rel |-> TRUE],
     [res |-> Res(1280, 720), bandwidth |-> 2000, rel |-> FALSE]}

\* the list of the spec's example, 720p/1000, 1080p/800, 480p/3000
ExampleVariants ==
    <<[res |-> Res(1280, 720), bandwidth |-> 1000, rel |-> TRUE],
      [res |-> Res(1920, 1080), bandwidth |-> 800, rel |-> TRUE],
      [res |-> Res(854, 480), bandwidth |-> 3000, rel |-> FALSE]>>

VariantLists == SeqsUpTo(VariantPool, MaxVariants) \cup {ExampleVariants}


\* ------------------------------------------------------- pure functions
Idx == 0..(MaxSegs - 1)
total == Len(segments)
Seg(i) == segments[i + 1]

\* the key of max_by_key: (resolution_score, v.bandwidth), a missing
\* resolution scoring 0
ResolutionScore(v) == IF v.res.some THEN v.res.w * v.res.h ELSE 0
VariantKey(v) == <<ResolutionScore(v), v.bandwidth>>

\* the pair compared with the bandwidth first
KeyGreater_BandwidthFirst(a, b) == a[2] > b[2] \/ (a[2] = b[2] /\ a[1] > b[1])

\* Ord of the pair: a > b lexicographically
KeyGreater(a, b) == a[1] > b[1] \/ (a[1] = b[1] /\ a[2] > b[2])

\* Iterator::max_by_key folds from the first element and keeps the
\* accumulator only when it compares Greater: of equal maxima the last wins.
RECURSIVE MaxFold(_, _, _)
MaxFold(vs, acc, j) ==
    IF j > Len(vs) THEN acc
    ELSE MaxFold(vs,
                 IF KeyGreater(VariantKey(vs[acc]), VariantKey(vs[j])) THEN acc ELSE j,
                 j + 1)

\* index of the variant max_by_key returns, 0 for None
MaxByKey(vs) == IF vs = <<>> THEN 0 ELSE MaxFold(vs, 1, 2)

\* decimal digits of n, most significant first
RECURSIVE Digits(_)
Digits(n) == IF n < 10 THEN <<n>> ELSE Append(Digits(n \div 10), n % 10)

RECURSIVE ZeroPad(_, _)
ZeroPad(ds, w) == IF Len(ds) >= w THEN ds ELSE ZeroPad(<<0>> \o ds, w)

\* a temp name that does not depend on the index
TmpName_NoIndex(idx) == [stem |-> "seg_", num |-> <<>>, ext |-> ".ts"]

\* format!("seg_{:05}.ts", idx)
TmpName(idx) == [stem |-> "seg_", num |-> ZeroPad(Digits(idx), PadWidth), ext |-> ".ts"]

\* "temp_merged.ts"
temp_ts == [stem |-> "temp_merged", num |-> <<>>, ext |-> ".ts"]

\* the bytes of segment idx before encryption
Plain(idx) == <<[seg |-> idx, k |-> "clear", iv |-> "clear"]>>

\* AES-128-CBC of the origin server, under its key "k1" and IV "iv1"
Encrypt(data, k, iv) == [j \in 1..Len(data) |-> [seg |-> data[j].seg, k |-> k, iv |-> iv]]

\* the body the server holds for segment idx: encrypted exactly when the
\* playlist announces a key on its first segment
ServerBody(idx) ==
    IF segments # <<>> /\ segments[1].key.present
    THEN Encrypt(Plain(idx), "k1", "iv1")
    ELSE Plain(idx)

\* Aes128Cbc::new_from_slices(k, iv): both slices must be 16 bytes long
CipherOk(k, iv) == k # "kshort" /\ iv # "ivshort"

\* cipher.decrypt_vec(&data): succeeds on data encrypted under (k, iv); under
\* another 16-byte key ("kx") the padding check fails
DecryptOk(data, k, iv) == \A j \in 1..Len(data) : data[j].k = k /\ data[j].iv = iv
Decrypt(data, k, iv) == [j \in 1..Len(data) |-> [seg |-> data[j].seg, k |-> "clear", iv |-> "clear"]]

None == [some |-> FALSE, k |-> "none", iv |-> "none"]
Some(k, iv) == [some |-> TRUE, k |-> k, iv |-> iv]

\* hex::decode(k.iv.unwrap().trim_start_matches("0x"))
HexDecode(iv) == IF iv = "hex16" THEN "iv1" ELSE "ivshort"

\* seg_url: base.join(&seg.uri) with a base, seg.uri.clone() without one;
\* TRUE when the result is an absolute URL reqwest can request
SegUrlAbsolute(i) == urlIsHttp \/ ~Seg(i).rel

\* file system helpers
FileWrite(f, name, data) == [n \in DOMAIN f \cup {name} |-> IF n = name THEN data ELSE f[n]]
FileRemove(f, name) == [n \in DOMAIN f \ {name} |-> f[n]]
NoFiles == [n \in {} |-> <<>>]

\* ------------------------------------------------------------------ Init
Init ==
    /\ urlIsHttp \in BOOLEAN
    /\ concurrency \in 0..MaxK
    /\ retries \in 0..MaxRetries
    /\ keep_temp \in BOOLEAN
    /\ pc = "ffmpeg"
    /\ jobErr = "none"
    /\ variants = <<>>
    /\ best = 0
    /\ segments = <<>>
    /\ key = None
    /\ keyGets = 0
    /\ permits = 0
    /\ next = 0
    /\ inq = {}
    /\ tasks = <<>>
    /\ tpc = [i \in Idx |-> "idle"]
    /\ attempt = [i \in Idx |-> 0]
    /\ terr = [i \in Idx |-> "none"]
    /\ buf = [i \in Idx |-> <<>>]
    /\ usedKey = [i \in Idx |-> None]
    /\ gets = [i \in Idx |-> 0]
    /\ sleeps = [i \in Idx |-> 0]
    /\ writes = [i \in Idx |-> 0]
    /\ mutexOwner = 0
    /\ completed = 0
    /\ local = [i \in Idx |-> 0]
    /\ positions = <<>>
    /\ fsys = NoFiles
    /\ mi = 0
    /\ removed = {}
    /\ dlStarted = FALSE
    /\ dlOk = FALSE
    /\ mediaFetches = 0
    /\ converted = FALSE
    /\ ready = <<>>
    /\ streamDone = FALSE
    /\ firstErr = 0
    /\ errSeg = 0
    /\ delays = {}

\* main returns Err(e) (or panics): nothing else runs
Fail(e) == pc' = "failed" /\ jobErr' = e

\* ------------------------------------------------------------------ main
\* check_ffmpeg().await?
CheckFfmpeg ==
    /\ pc = "ffmpeg"
    /\ \E ok \in BOOLEAN :
          IF ok THEN pc' = "load" /\ UNCHANGED jobErr ELSE Fail("ffmpeg")
    /\ UNCHANGED <<argVars, doneVars, auxVars, mainVars, segments, keyVars, permits, ctlVars, taskVars,
                   cntVars, fsys, mergeVars, dlStarted, dlOk>>

\* download_playlist / fs::read, parse_playlist, and the match on the playlist
LoadPlaylist ==
    /\ pc = "load"
    /\ \/ /\ Fail("load")
          /\ UNCHANGED <<variants, segments, dlStarted>>
       \/ \E vs \in VariantLists :
             /\ variants' = vs
             /\ pc' = "select"
             /\ UNCHANGED <<jobErr, segments, dlStarted>>
       \/ \E s \in SegLists :
             /\ segments' = s
             /\ pc' = "key"
             /\ dlStarted' = TRUE
             /\ UNCHANGED <<jobErr, variants>>
    /\ UNCHANGED <<argVars, doneVars, auxVars, best, mediaFetches, converted, keyVars, permits, ctlVars,
                   taskVars, cntVars, fsys, mergeVars, dlOk>>

\* master.variants.iter().max_by_key(..).ok_or_else(..)?
SelectVariant ==
    /\ pc = "select"
    /\ IF MaxByKey(variants) = 0
       THEN Fail("no_variants") /\ UNCHANGED best
       ELSE best' = MaxByKey(variants) /\ pc' = "resolve_media" /\ UNCHANGED jobErr
    /\ UNCHANGED <<argVars, doneVars, auxVars, variants, mediaFetches, converted, segments, keyVars, permits,
                   ctlVars, taskVars, cntVars, fsys, mergeVars, dlStarted, dlOk>>

\* let media_url = if let Some(base) = &base_url { base.join(..)? } else { bail!(..) }
ResolveMediaUrl ==
    /\ pc = "resolve_media"
    /\ IF urlIsHttp
       THEN pc' = "fetch_media" /\ UNCHANGED jobErr
       ELSE Fail("master_needs_url")
    /\ UNCHANGED <<argVars, doneVars, auxVars, mainVars, segments, keyVars, permits, ctlVars, taskVars,
                   cntVars, fsys, mergeVars, dlStarted, dlOk>>

\* download_playlist(media_url), parse_playlist, if let MediaPlaylist(mp) = media_pl;
\* master and best are not read after media_url has been computed: they are
\* dropped here
FetchMedia ==
    /\ pc = "fetch_media"
    /\ mediaFetches' = mediaFetches + 1
    /\ variants' = <<>>
    /\ best' = 0
    /\ \/ /\ Fail("load")
          /\ UNCHANGED <<segments, dlStarted>>
       \/ \E s \in SegLists :
             /\ segments' = s
             /\ pc' = "key"
             /\ dlStarted' = TRUE
             /\ UNCHANGED jobErr
       \/ /\ pc' = "convert"
          /\ UNCHANGED <<jobErr, segments, dlStarted>>
    /\ UNCHANGED <<argVars, doneVars, auxVars, converted, keyVars, permits, ctlVars,
                   taskVars, cntVars, fsys, mergeVars, dlOk>>


\* ------------------------------------------------ download_and_merge: key
\* a semaphore created with one permit too many
EnterCollect_ExtraPermit ==
    /\ pc' = "collect"
    /\ permits' = concurrency + 1

\* Semaphore::new(args.concurrency), completed = Mutex::new(0), then the stream
EnterCollect ==
    /\ pc' = "collect"
    /\ permits' = concurrency

\* key resolution that takes the key of the first segment that has one
ResolveKey_AnySegment ==
    /\ pc = "key"
    /\ IF \A j \in 1..Len(segments) : ~segments[j].key.present
       THEN EnterCollect /\ UNCHANGED jobErr
       ELSE LET j == CHOOSE m \in 1..Len(segments) : segments[m].key.present
            IN  IF segments[j].key.uri = "none"
                THEN Fail("panic") /\ UNCHANGED permits
                ELSE IF urlIsHttp \/ segments[j].key.uri = "abs"
                     THEN pc' = "key_get" /\ UNCHANGED <<jobErr, permits>>
                     ELSE Fail("key_url") /\ UNCHANGED permits
    /\ UNCHANGED <<argVars, doneVars, auxVars, mainVars, segments, keyVars, ctlVars, taskVars, cntVars,
                   fsys, mergeVars, dlStarted, dlOk>>

\* segments.first().and_then(|s| s.key.clone()) and the resolution of key_url
ResolveKey ==
    /\ pc = "key"
    /\ IF segments = <<>> \/ ~segments[1].key.present
       THEN EnterCollect /\ UNCHANGED jobErr
       ELSE IF segments[1].key.uri = "none"
            THEN Fail("panic") /\ UNCHANGED permits
            ELSE IF urlIsHttp \/ segments[1].key.uri = "abs"
                 THEN pc' = "key_get" /\ UNCHANGED <<jobErr, permits>>
                 ELSE Fail("key_url") /\ UNCHANGED permits
    /\ UNCHANGED <<argVars, doneVars, auxVars, mainVars, segments, keyVars, ctlVars, taskVars, cntVars,
                   fsys, mergeVars, dlStarted, dlOk>>

\* block_on(client.get(key_url).send()?.error_for_status()?.bytes()), then
\* hex::decode of the IV
KeyGet ==
    /\ pc = "key_get"
    /\ keyGets' = keyGets + 1
    /\ \/ /\ Fail("key_fetch")
          /\ UNCHANGED <<key, permits>>
       \/ \E kb \in {"k1", "kx", "kshort"} :
             IF segments[1].key.iv = "none"
             THEN Fail("panic") /\ UNCHANGED <<key, permits>>
             ELSE IF segments[1].key.iv = "nonhex"
                  THEN Fail("iv_hex") /\ UNCHANGED <<key, permits>>
                  ELSE /\ key' = Some(kb, HexDecode(segments[1].key.iv))
                       /\ EnterCollect
                       /\ UNCHANGED jobErr
    /\ UNCHANGED <<argVars, doneVars, auxVars, mainVars, segments, ctlVars, taskVars, cntVars,
                   fsys, mergeVars, dlStarted, dlOk>>

\* a buffer that admits one handle more than its limit
Spawn_Inclusive ==
    /\ pc = "collect"
    /\ next < total
    /\ Cardinality(inq) <= concurrency
    /\ tpc' = [tpc EXCEPT ![next] = "acquire"]
    /\ inq' = inq \cup {next}
    /\ ready' = Append(ready, next)
    /\ next' = next + 1
    /\ UNCHANGED <<argVars, firstErr, auxVars, mainVars, pc, jobErr, segments, keyVars, permits, tasks,
                   attempt, terr, buf, usedKey, gets, sleeps, writes, local, cntVars,
                   fsys, mergeVars, dlStarted, dlOk>>

\* ---------------------------------------------- download_and_merge: tasks
\* buffer_unordered pulls the next item of the stream while it holds fewer
\* than args.concurrency futures; the map closure spawns the task, and
\* FuturesUnordered::push queues the new join handle for its first poll
Spawn ==
    /\ pc = "collect"
    /\ next < total
    /\ Cardinality(inq) < concurrency
    /\ tpc' = [tpc EXCEPT ![next] = "acquire"]
    /\ inq' = inq \cup {next}
    /\ ready' = Append(ready, next)
    /\ next' = next + 1
    /\ UNCHANGED <<argVars, firstErr, auxVars, mainVars, pc, jobErr, segments, keyVars, permits, tasks,
                   attempt, terr, buf, usedKey, gets, sleeps, writes, local, cntVars,
                   fsys, mergeVars, dlStarted, dlOk>>

\* the task is finished: its join handle's waker, registered by the last
\* poll that found it pending, puts the handle back on the queue
Wake(i) ==
    IF \E j \in 1..Len(ready) : ready[j] = i THEN ready ELSE Append(ready, i)

\* task i is the first to return Err
NoteErr(i) == IF firstErr = 0 THEN i + 1 ELSE firstErr

\* a task that returns Err(e) and keeps its permit
TaskFail_Leak(i, e) ==
    /\ tpc' = [tpc EXCEPT ![i] = "err"]
    /\ terr' = [terr EXCEPT ![i] = e]
    /\ permits' = permits
    /\ ready' = Wake(i)
    /\ firstErr' = NoteErr(i)

\* the task returns Err(e): _permit is dropped
TaskFail(i, e) ==
    /\ tpc' = [tpc EXCEPT ![i] = "err"]
    /\ terr' = [terr EXCEPT ![i] = e]
    /\ permits' = permits + 1
    /\ ready' = Wake(i)
    /\ firstErr' = NoteErr(i)

\* the attempt loop is over (or empty): bail!("重试{}次后仍无法下载")
Exhausted(i) == TaskFail(i, "exhausted")

\* an attempt loop that runs its body before testing the bound
Acquire_AtLeastOnce(i) ==
    /\ tpc[i] = "acquire"
    /\ permits > 0
    /\ permits' = permits - 1
    /\ tpc' = [tpc EXCEPT ![i] = "send"]
    /\ attempt' = [attempt EXCEPT ![i] = 1]
    /\ UNCHANGED <<terr, doneVars>>
    /\ UNCHANGED <<argVars, auxVars, mainVars, pc, jobErr, segments, keyVars, ctlVars, buf,
                   usedKey, gets, sleeps, writes, local, cntVars, fsys, mergeVars,
                   dlStarted, dlOk>>

\* let _permit = sem.acquire().await; then the head of for attempt in 1..=retries
Acquire(i) ==
    /\ tpc[i] = "acquire"
    /\ permits > 0
    /\ IF retries >= 1
       THEN /\ permits' = permits - 1
            /\ tpc' = [tpc EXCEPT ![i] = "send"]
            /\ attempt' = [attempt EXCEPT ![i] = 1]
            /\ UNCHANGED <<terr, doneVars>>
       ELSE /\ tpc' = [tpc EXCEPT ![i] = "err"]
            /\ terr' = [terr EXCEPT ![i] = "exhausted"]
            /\ ready' = Wake(i)
            /\ firstErr' = NoteErr(i)
            /\ UNCHANGED <<permits, attempt>>
    /\ UNCHANGED <<argVars, auxVars, mainVars, pc, jobErr, segments, keyVars, ctlVars, buf,
                   usedKey, gets, sleeps, writes, local, cntVars, fsys, mergeVars,
                   dlStarted, dlOk>>

\* the outcomes of client.get(&seg_url).send().await: a relative seg_url makes
\* reqwest fail to build the request, which send() reports as Err
SendOutcomes(i) ==
    IF SegUrlAbsolute(i) THEN {"2xx", "non2xx", "transport"} ELSE {"builder"}

\* a retry loop that goes round once more than retries
Send_OneMore(i) ==
    /\ tpc[i] = "send"
    /\ gets' = [gets EXCEPT ![i] = @ + 1]
    /\ \E o \in SendOutcomes(i) :
          IF o = "2xx"
          THEN /\ tpc' = [tpc EXCEPT ![i] = "recv"]
               /\ UNCHANGED <<terr, permits, doneVars>>
          ELSE IF attempt[i] <= retries
               THEN /\ tpc' = [tpc EXCEPT ![i] = "sleep"]
                    /\ UNCHANGED <<terr, permits, doneVars>>
               ELSE Exhausted(i)
    /\ UNCHANGED <<argVars, auxVars, mainVars, pc, jobErr, segments, keyVars, ctlVars, attempt,
                   buf, usedKey, sleeps, writes, local, cntVars, fsys, mergeVars,
                   dlStarted, dlOk>>

\* a retry loop that also waits after its last failed attempt
Send_SleepAlways(i) ==
    /\ tpc[i] = "send"
    /\ gets' = [gets EXCEPT ![i] = @ + 1]
    /\ \E o \in SendOutcomes(i) :
          IF o = "2xx"
          THEN /\ tpc' = [tpc EXCEPT ![i] = "recv"]
               /\ UNCHANGED <<terr, permits, doneVars>>
          ELSE /\ tpc' = [tpc EXCEPT ![i] = "sleep"]
               /\ UNCHANGED <<terr, permits, doneVars>>
    /\ UNCHANGED <<argVars, auxVars, mainVars, pc, jobErr, segments, keyVars, ctlVars, attempt,
                   buf, usedKey, sleeps, writes, local, cntVars, fsys, mergeVars,
                   dlStarted, dlOk>>

\* match client.get(&seg_url).send().await, the Ok(r) / Err(e) arms and the
\* if attempt < retries that follows them
Send(i) ==
    /\ tpc[i] = "send"
    /\ gets' = [gets EXCEPT ![i] = @ + 1]
    /\ \E o \in SendOutcomes(i) :
          IF o = "2xx"
          THEN /\ tpc' = [tpc EXCEPT ![i] = "recv"]
               /\ UNCHANGED <<terr, permits, doneVars>>
          ELSE IF attempt[i] < retries
               THEN /\ tpc' = [tpc EXCEPT ![i] = "sleep"]
                    /\ UNCHANGED <<terr, permits, doneVars>>
               ELSE Exhausted(i)
    /\ UNCHANGED <<argVars, auxVars, mainVars, pc, jobErr, segments, keyVars, ctlVars, attempt,
                   buf, usedKey, sleeps, writes, local, cntVars, fsys, mergeVars,
                   dlStarted, dlOk>>

\* the delay (ms) slept after failed attempt a
RetryDelay(a) == 2000

\* tokio::time::sleep(Duration::from_millis(2000)).await, then the next attempt
Sleep(i) ==
    /\ tpc[i] = "sleep"
    /\ sleeps' = [sleeps EXCEPT ![i] = @ + 1]
    /\ delays' = delays \cup {RetryDelay(attempt[i])}
    /\ attempt' = [attempt EXCEPT ![i] = @ + 1]
    /\ tpc' = [tpc EXCEPT ![i] = "send"]
    /\ UNCHANGED <<argVars, doneVars, streamDone, errSeg, mainVars, pc, jobErr, segments, keyVars, permits, ctlVars,
                   terr, buf, usedKey, gets, writes, local, cntVars, fsys, mergeVars,
                   dlStarted, dlOk>>

\* a task that treats a decryption failure as one more failed attempt
Recv_RetryDecrypt(i) ==
    /\ tpc[i] = "recv"
    /\ \E bodyOk \in BOOLEAN :
          IF ~bodyOk
          THEN TaskFail(i, "body") /\ UNCHANGED <<buf, usedKey>>
          ELSE IF key.some
               THEN IF ~CipherOk(key.k, key.iv)
                    THEN TaskFail(i, "cipher") /\ UNCHANGED <<buf, usedKey>>
                    ELSE IF ~DecryptOk(ServerBody(i), key.k, key.iv)
                         THEN /\ IF attempt[i] < retries
                                 THEN /\ tpc' = [tpc EXCEPT ![i] = "sleep"]
                                      /\ UNCHANGED <<terr, permits, doneVars>>
                                 ELSE TaskFail(i, "decrypt")
                              /\ UNCHANGED <<buf, usedKey>>
                         ELSE /\ buf' = [buf EXCEPT ![i] = Decrypt(ServerBody(i), key.k, key.iv)]
                              /\ usedKey' = [usedKey EXCEPT ![i] = key]
                              /\ tpc' = [tpc EXCEPT ![i] = "write"]
                              /\ UNCHANGED <<terr, permits, doneVars>>
               ELSE /\ buf' = [buf EXCEPT ![i] = ServerBody(i)]
                    /\ tpc' = [tpc EXCEPT ![i] = "write"]
                    /\ UNCHANGED <<terr, permits, usedKey, doneVars>>
    /\ UNCHANGED <<argVars, auxVars, mainVars, pc, jobErr, segments, keyVars, ctlVars, attempt,
                   gets, sleeps, writes, local, cntVars, fsys, mergeVars, dlStarted, dlOk>>

\* let data = resp.bytes().await?; and the decryption or pass-through
Recv(i) ==
    /\ tpc[i] = "recv"
    /\ \E bodyOk \in BOOLEAN :
          IF ~bodyOk
          THEN TaskFail(i, "body") /\ UNCHANGED <<buf, usedKey>>
          ELSE IF key.some
               THEN IF ~CipherOk(key.k, key.iv)
                    THEN TaskFail(i, "cipher") /\ UNCHANGED <<buf, usedKey>>
                    ELSE IF ~DecryptOk(ServerBody(i), key.k, key.iv)
                         THEN TaskFail(i, "decrypt") /\ UNCHANGED <<buf, usedKey>>
                         ELSE /\ buf' = [buf EXCEPT ![i] = Decrypt(ServerBody(i), key.k, key.iv)]
                              /\ usedKey' = [usedKey EXCEPT ![i] = key]
                              /\ tpc' = [tpc EXCEPT ![i] = "write"]
                              /\ UNCHANGED <<terr, permits, doneVars>>
               ELSE /\ buf' = [buf EXCEPT ![i] = ServerBody(i)]
                    /\ tpc' = [tpc EXCEPT ![i] = "write"]
                    /\ UNCHANGED <<terr, permits, usedKey, doneVars>>
    /\ UNCHANGED <<argVars, auxVars, mainVars, pc, jobErr, segments, keyVars, ctlVars, attempt,
                   gets, sleeps, writes, local, cntVars, fsys, mergeVars, dlStarted, dlOk>>

\* fs::write(&tmp, &buf).await?
Write(i) ==
    /\ tpc[i] = "write"
    /\ \E ok \in BOOLEAN :
          IF ok
          THEN /\ fsys' = FileWrite(fsys, TmpName(i), buf[i])
               /\ writes' = [writes EXCEPT ![i] = @ + 1]
               /\ tpc' = [tpc EXCEPT ![i] = "lock"]
               /\ UNCHANGED <<terr, permits, doneVars>>
          ELSE TaskFail(i, "write") /\ UNCHANGED <<fsys, writes>>
    /\ UNCHANGED <<argVars, auxVars, mainVars, pc, jobErr, segments, keyVars, ctlVars, attempt,
                   buf, usedKey, gets, sleeps, local, cntVars, mergeVars, dlStarted, dlOk>>

\* a counter updated without mutual exclusion
MutexFree_NoExclusion(i) == TRUE

\* the mutex can be taken by task i
MutexFree(i) == mutexOwner = 0

\* let mut count = completed.lock().await; and the read of *count += 1
Lock(i) ==
    /\ tpc[i] = "lock"
    /\ MutexFree(i)
    /\ mutexOwner' = i + 1
    /\ local' = [local EXCEPT ![i] = completed]
    /\ tpc' = [tpc EXCEPT ![i] = "store"]
    /\ UNCHANGED <<argVars, doneVars, auxVars, mainVars, pc, jobErr, segments, keyVars, permits, ctlVars,
                   attempt, terr, buf, usedKey, gets, sleeps, writes, completed, positions,
                   fsys, mergeVars, dlStarted, dlOk>>

\* the write of *count += 1, pb.set_position(*count), return Ok(()): the guard
\* and the permit are dropped
Store(i) ==
    /\ tpc[i] = "store"
    /\ completed' = local[i] + 1
    /\ positions' = Append(positions, local[i] + 1)
    /\ mutexOwner' = 0
    /\ permits' = permits + 1
    /\ tpc' = [tpc EXCEPT ![i] = "ok"]
    /\ ready' = Wake(i)
    /\ UNCHANGED <<argVars, firstErr, auxVars, mainVars, pc, jobErr, segments, keyVars, ctlVars, attempt,
                   terr, buf, usedKey, gets, sleeps, writes, local, fsys, mergeVars,
                   dlStarted, dlOk>>

\* the fill loop of buffer_unordered polls the stream while it holds fewer
\* than args.concurrency futures: the stream is exhausted and returns None
StreamEnd ==
    /\ pc = "collect"
    /\ next = total
    /\ ~streamDone
    /\ Cardinality(inq) < concurrency
    /\ streamDone' = TRUE
    /\ UNCHANGED <<argVars, doneVars, errSeg, delays, mainVars, pc, jobErr, segments,
                   keyVars, permits, ctlVars, taskVars, cntVars, fsys, mergeVars,
                   dlStarted, dlOk>>

\* buffer_unordered has nothing to pull from the stream right now
FillDone == streamDone \/ Cardinality(inq) >= concurrency

\* FuturesUnordered polls the join handle at the head of its queue: a finished
\* task's result is yielded to collect, a pending handle leaves the queue
\* until its task wakes it
PollHandle ==
    /\ pc = "collect"
    /\ FillDone
    /\ ready # <<>>
    /\ ready' = Tail(ready)
    /\ IF tpc[Head(ready)] \in {"ok", "err"}
       THEN /\ inq' = inq \ {Head(ready)}
            /\ tasks' = Append(tasks, Head(ready))
       ELSE UNCHANGED <<inq, tasks>>
    /\ UNCHANGED <<argVars, firstErr, auxVars, mainVars, pc, jobErr, segments, keyVars,
                   permits, next, taskVars, cntVars, fsys, mergeVars, dlStarted, dlOk>>

\* task results that are dropped instead of propagated
FailedAt_Ignored == {}

\* indices into tasks of the results that are Err
FailedAt == {j \in 1..Len(tasks) : tpc[tasks[j]] = "err"}
FirstFailed == CHOOSE j \in FailedAt : \A m \in FailedAt : j <= m

\* the stream is exhausted and every future has been yielded: collect returns;
\* for task in tasks { task??; }
JoinCheck ==
    /\ pc = "collect"
    /\ streamDone
    /\ inq = {}
    /\ IF FailedAt # {}
       THEN Fail(terr[tasks[FirstFailed]]) /\ errSeg' = tasks[FirstFailed] + 1
       ELSE pc' = "create" /\ UNCHANGED <<jobErr, errSeg>>
    /\ UNCHANGED <<argVars, doneVars, streamDone, delays, mainVars, segments, keyVars, permits, ctlVars, taskVars,
                   cntVars, fsys, mergeVars, dlStarted, dlOk>>

\* ---------------------------------------------- download_and_merge: merge
\* let mut output = File::create(output_file)?;
CreateOutput ==
    /\ pc = "create"
    /\ fsys' = FileWrite(fsys, temp_ts, <<>>)
    /\ pc' = "merge"
    /\ mi' = 0
    /\ UNCHANGED <<argVars, doneVars, auxVars, mainVars, jobErr, segments, keyVars, permits, ctlVars,
                   taskVars, cntVars, removed, dlStarted, dlOk>>

\* a merge loop that appends the segment file but leaves it in place
MergeStep_KeepsTemp ==
    /\ pc = "merge"
    /\ mi < total
    /\ IF TmpName(mi) \notin DOMAIN fsys
       THEN Fail("missing_segment") /\ UNCHANGED <<fsys, mi, removed>>
       ELSE /\ fsys' = FileWrite(fsys, temp_ts, fsys[temp_ts] \o fsys[TmpName(mi)])
            /\ removed' = removed \cup {mi}
            /\ mi' = mi + 1
            /\ UNCHANGED <<pc, jobErr>>
    /\ UNCHANGED <<argVars, doneVars, auxVars, mainVars, segments, keyVars, permits, ctlVars, taskVars,
                   cntVars, dlStarted, dlOk>>

\* one iteration of for i in 0..total: read, write_all, remove_file
MergeStep ==
    /\ pc = "merge"
    /\ mi < total
    /\ IF TmpName(mi) \notin DOMAIN fsys
       THEN Fail("missing_segment") /\ UNCHANGED <<fsys, mi, removed>>
       ELSE /\ fsys' = FileRemove(FileWrite(fsys, temp_ts, fsys[temp_ts] \o fsys[TmpName(mi)]),
                               TmpName(mi))
            /\ removed' = removed \cup {mi}
            /\ mi' = mi + 1
            /\ UNCHANGED <<pc, jobErr>>
    /\ UNCHANGED <<argVars, doneVars, auxVars, mainVars, segments, keyVars, permits, ctlVars, taskVars,
                   cntVars, dlStarted, dlOk>>

\* the loop is over: download_and_merge returns Ok(()) to main
MergeDone ==
    /\ pc = "merge"
    /\ mi = total
    /\ pc' = "convert"
    /\ dlOk' = TRUE
    /\ UNCHANGED <<argVars, doneVars, auxVars, mainVars, jobErr, segments, keyVars, permits, ctlVars,
                   taskVars, cntVars, fsys, mergeVars, dlStarted>>

\* ------------------------------------------------------- main, continued
\* convert_to_mp4(temp_ts, &args, &multi_progress).await?
Convert ==
    /\ pc = "convert"
    /\ converted' = TRUE
    /\ \E ok \in BOOLEAN :
          IF ok THEN pc' = "cleanup" /\ UNCHANGED jobErr ELSE Fail("convert")
    /\ UNCHANGED <<argVars, doneVars, auxVars, variants, best, mediaFetches, segments, keyVars, permits,
                   ctlVars, taskVars, cntVars, fsys, mergeVars, dlStarted, dlOk>>

\* if !args.keep_temp { let _ = fs::remove_file(temp_ts).await; } Ok(())
Cleanup ==
    /\ pc = "cleanup"
    /\ fsys' = IF keep_temp THEN fsys ELSE FileRemove(fsys, temp_ts)
    /\ pc' = "done"
    /\ UNCHANGED <<argVars, doneVars, auxVars, mainVars, jobErr, segments, keyVars, permits, ctlVars,
                   taskVars, cntVars, mergeVars, dlStarted, dlOk>>

Next ==
    \/ CheckFfmpeg
    \/ LoadPlaylist
    \/ SelectVariant
    \/ ResolveMediaUrl
    \/ FetchMedia
    \/ ResolveKey
    \/ KeyGet
    \/ Spawn
    \/ \E i \in Idx : Acquire(i)
    \/ \E i \in Idx : Send(i)
    \/ \E i \in Idx : Sleep(i)
    \/ \E i \in Idx : Recv(i)
    \/ \E i \in Idx : Write(i)
    \/ \E i \in Idx : Lock(i)
    \/ \E i \in Idx : Store(i)
    \/ StreamEnd
    \/ PollHandle
    \/ JoinCheck
    \/ CreateOutput
    \/ MergeStep
    \/ MergeDone
    \/ Convert
    \/ Cleanup

Spec == Init /\ [][Next]_vars

\* every HTTP request and every delay eventually returns, and the runtime
\* keeps polling whatever is ready: a step that can be taken is taken
FairSpec == Spec /\ WF_vars(Next)


\* ================================================================ claims
\* tasks that hold a permit of sem and have not returned
InFlight == {i \in Idx : tpc[i] \in {"send", "sleep", "recv", "write", "lock", "store"}}

\* the task got a 2xx response on some attempt
HadSuccess(i) ==
    \/ tpc[i] \in {"recv", "write", "lock", "store", "ok"}
    \/ tpc[i] = "err" /\ terr[i] \in {"body", "cipher", "decrypt", "write"}

RECURSIVE ConcatPlain(_)
ConcatPlain(n) == IF n = 0 THEN <<>> ELSE ConcatPlain(n - 1) \o Plain(n - 1)

\* C1: whatever order the segment tasks finish in, the merged output holds
\* plaintext(0) ++ ... ++ plaintext(i-1) after i merge iterations, and the
\* whole concatenation, each segment once and in index order, when
\* download_and_merge returns Ok.
C1_OrderInvariance ==
    /\ pc = "merge" => fsys[temp_ts] = ConcatPlain(mi)
    /\ (pc = "convert" /\ dlOk) => fsys[temp_ts] = ConcatPlain(total)

\* two segments merged although segment 1 finished before segment 0
C1_Witness ==
    /\ pc = "convert" /\ dlOk
    /\ total = 2
    /\ tasks = <<1, 0>>
    /\ positions = <<1, 2>>

\* C2: the merged output exists (or is about to be created, or the job
\* returned Ok) only when every segment task returned Ok; once a task has
\* failed, the job never leaves the download phase except by failing.
C2_AllOrNothing ==
    /\ (temp_ts \in DOMAIN fsys \/ pc \in {"create", "merge"} \/ dlOk)
          => \A i \in 0..(total - 1) : tpc[i] = "ok"
    /\ (\E i \in Idx : tpc[i] = "err")
          => /\ pc \in {"collect", "failed"}
             /\ temp_ts \notin DOMAIN fsys
             /\ ~dlOk

\* a job failed by one task while another task had succeeded
C2_Witness ==
    /\ pc = "failed"
    /\ \E i, j \in Idx : tpc[i] = "err" /\ tpc[j] = "ok" /\ TmpName(j) \in DOMAIN fsys
    /\ temp_ts \notin DOMAIN fsys

\* C3: with concurrency K >= 1 at most K tasks hold a permit at a time, and
\* the free permits and the running pipelines always add up to K.
C3_ConcurrencyBound ==
    concurrency >= 1 =>
        /\ Cardinality(InFlight) <= concurrency
        /\ (next > 0 => permits + Cardinality(InFlight) = concurrency)

\* the pool is saturated while a segment is still waiting to be started
C3_Witness ==
    /\ concurrency >= 1
    /\ Cardinality(InFlight) = concurrency
    /\ next < total
    /\ \E i \in InFlight : tpc[i] = "sleep"

\* (area, bandwidth) of a is lexicographically >= that of b
PairGE(a, b) ==
    LET areaA == IF a.res.some THEN a.res.w * a.res.h ELSE 0
        areaB == IF b.res.some THEN b.res.w * b.res.h ELSE 0
    IN  areaA > areaB \/ (areaA = areaB /\ a.bandwidth >= b.bandwidth)

\* C4: the selected variant's (area, bandwidth) is lexicographically >= that
\* of every variant, the example list selects 1080p, and a nested media
\* playlist is fetched only after a variant was selected (never for an empty
\* list, which fails with the no-variants error).
C4_VariantSelection ==
    /\ best # 0 =>
          /\ best \in 1..Len(variants)
          /\ \A j \in 1..Len(variants) : PairGE(variants[best], variants[j])
    /\ (variants = ExampleVariants /\ best # 0) => variants[best].res = Res(1920, 1080)
    /\ (variants # <<>> /\ pc \notin {"select", "failed"}) => best # 0
    /\ pc \in {"resolve_media", "fetch_media"} => (variants # <<>> /\ best # 0)
    /\ jobErr = "no_variants" => (variants = <<>> /\ mediaFetches = 0 /\ ~dlStarted)

\* the example list has been through the selection
C4_Witness ==
    /\ variants = ExampleVariants
    /\ best = 2
    /\ pc = "fetch_media"

\* C5: at most one key GET is ever issued; none when the first segment has no
\* key (then nothing is decrypted and every body is passed through); once
\* key resolution has returned, exactly one was issued iff the first segment
\* carries a key; every decrypting task used the one resolved (key, IV).
C5_SingleKeyFetch ==
    /\ keyGets <= 1
    /\ (segments = <<>> \/ ~segments[1].key.present) =>
          /\ keyGets = 0
          /\ ~key.some
          /\ \A i \in Idx : ~usedKey[i].some
          /\ \A i \in Idx : tpc[i] \in {"write", "lock", "store", "ok"} => buf[i] = ServerBody(i)
    /\ (next > 0 \/ pc \in {"collect", "create", "merge"} \/ dlOk) =>
          /\ keyGets = (IF segments # <<>> /\ segments[1].key.present THEN 1 ELSE 0)
          /\ key.some <=> (segments # <<>> /\ segments[1].key.present)
    /\ (\E i \in Idx : gets[i] > 0) => pc \notin {"key", "key_get"}
    /\ \A i \in Idx : tpc[i] \in {"write", "lock", "store", "ok"} /\ key.some => usedKey[i] = key
    /\ \A i \in Idx : usedKey[i].some => usedKey[i] = key

\* two segments decrypted after a single key GET
C5_Witness ==
    /\ total = 2
    /\ keyGets = 1
    /\ \A i \in 0..1 : tpc[i] = "ok" /\ usedKey[i].some

\* C6: with retries R >= 1 a task issues at most R GETs, numbered by attempt
\* 1..R in order, none after a 2xx response, and it ends with the exhaustion
\* error exactly when R attempts were made and none got a 2xx response.
C6_AttemptBound ==
    /\ [](retries >= 1 =>
            \A i \in Idx :
               /\ gets[i] <= retries
               /\ attempt[i] \in 0..retries
               /\ gets[i] = (IF tpc[i] = "send" THEN attempt[i] - 1 ELSE attempt[i])
               /\ (tpc[i] = "err" /\ terr[i] = "exhausted")
                     <=> (gets[i] = retries /\ tpc[i] \notin {"sleep", "send"} /\ ~HadSuccess(i)))
    /\ [][\A i \in Idx : HadSuccess(i) => gets'[i] = gets[i]]_vars

\* a task that made both of its two attempts in vain
C6_Witness ==
    /\ retries = 2
    /\ \E i \in Idx : tpc[i] = "err" /\ terr[i] = "exhausted" /\ gets[i] = 2 /\ sleeps[i] = 1

\* C7 (as claimed): an attempt that ends in anything but a fully received
\* 2xx response makes the task fail only when it was the last attempt.
C7_TransientRetried ==
    retries >= 1 =>
        \A i \in Idx :
            (tpc[i] = "err" /\ terr[i] \in {"exhausted", "body"}) => gets[i] = retries

\* C8: a task writes its temp store at most once and exactly once when it
\* succeeds; completed counts exactly the tasks that returned Ok (those about
\* to return included), the reported positions are 1, 2, .., completed, and
\* completed never exceeds the number of segments.
C8_ExactlyOnce ==
    /\ \A i \in Idx : writes[i] <= 1
    /\ \A i \in Idx : tpc[i] \in {"lock", "store", "ok"} <=> writes[i] = 1
    /\ completed = Cardinality({i \in Idx : tpc[i] = "ok"})
    /\ positions = [j \in 1..completed |-> j]
    /\ completed <= total
    /\ (total > 0 /\ \A i \in 0..(total - 1) : tpc[i] = "ok") => completed = total

\* both tasks succeeded, one of them on its second attempt
C8_Witness ==
    /\ total = 2
    /\ completed = 2
    /\ \A i \in 0..1 : tpc[i] = "ok"
    /\ \E i \in 0..1 : gets[i] = 2

\* C9 (as claimed): a relative URI without a base URL is never requested and
\* never waited for; the job fails with the missing-base-URL error.
C9_MissingBaseFatal ==
    /\ \A i \in 0..(total - 1) :
          ~SegUrlAbsolute(i) =>
             /\ gets[i] = 0
             /\ sleeps[i] = 0
             /\ tpc[i] = "err" => terr[i] = "missing_base"
    /\ (~urlIsHttp /\ best # 0) => mediaFetches = 0

\* C10 (as claimed): a merged segment's temp store is gone when keep_temp is
\* off and still in place when keep_temp is on.
C10_TempRetention ==
    pc \in {"merge", "convert", "cleanup", "done"} =>
        \A i \in 0..(total - 1) :
            i < mi => (keep_temp <=> TmpName(i) \in DOMAIN fsys)


\* C11 (as claimed): once a segment task has returned Err, no task that has
\* not been started yet is started.
C11_CancelOnFailure ==
    [][(\E i \in Idx : tpc[i] = "err")
          => \A j \in Idx : tpc[j] = "idle" => tpc'[j] = "idle"]_vars


\* C12 (as claimed): when segment tasks fail, the one error the job returns
\* is the error of the task that returned Err first.
C12_FirstErrorWins ==
    (pc = "failed" /\ errSeg # 0) => errSeg = firstErr


\* the task failed building the cipher or decrypting
DecryptFailed(i) == tpc[i] = "err" /\ terr[i] \in {"cipher", "decrypt"}

\* C13: a task whose cipher construction or decryption fails ends at once,
\* whatever attempts are left: its 2xx attempt stays its only GET, it sleeps no
\* more, it writes no temp store and does not count as completed, and the job
\* can only fail.
C13_DecryptFatal ==
    /\ [](\A i \in Idx :
            DecryptFailed(i) =>
               /\ gets[i] = attempt[i]
               /\ writes[i] = 0
               /\ TmpName(i) \notin DOMAIN fsys
               /\ completed = Cardinality({j \in Idx \ {i} : tpc[j] = "ok"})
               /\ pc \in {"collect", "failed"}
               /\ temp_ts \notin DOMAIN fsys)
    /\ [][\A i \in Idx :
            (tpc[i] = "recv" /\ tpc'[i] # "recv" /\ tpc'[i] # "write" /\ key.some)
               => (tpc'[i] = "err" /\ gets'[i] = gets[i] /\ sleeps'[i] = sleeps[i])]_vars
    /\ [][\A i \in Idx :
            DecryptFailed(i) => (DecryptFailed(i)' /\ gets'[i] = gets[i] /\ sleeps'[i] = sleeps[i])]_vars

\* a segment fetched on the first of two attempts, undecryptable, job failed
C13_Witness ==
    /\ retries = 2
    /\ pc = "failed"
    /\ \E i \in Idx : tpc[i] = "err" /\ terr[i] = "decrypt" /\ gets[i] = 1 /\ errSeg = i + 1


\* C14 (as claimed): an IV that does not decode to 16 bytes fails key
\* resolution, so no segment task is scheduled and no segment GET is issued.
C14_IvValidated ==
    (segments # <<>> /\ segments[1].key.present
        /\ segments[1].key.iv \in {"hexshort", "nonhex"})
    => /\ next = 0
       /\ \A i \in Idx : gets[i] = 0
       /\ pc \in {"key", "key_get", "failed"}
       /\ (pc = "failed" /\ keyGets = 1) => jobErr \in {"key_fetch", "iv_hex"}

Holding(i) == tpc[i] \in {"send", "sleep", "recv", "write", "lock", "store"}
Settled(i) == tpc[i] \in {"ok", "err"}

\* C17: with K >= 1, once the controller starts collecting, every segment
\* task eventually settles and the controller eventually leaves the collect
\* phase; it leaves only when all N tasks have settled and every permit is
\* back; a permit is held exactly by the tasks inside their pipeline, so it
\* is released on success and on each kind of failure; the job result, once
\* produced, never changes.
C17_SlotReleaseTermination ==
    /\ (pc = "collect" /\ concurrency >= 1)
          ~> (pc # "collect" /\ permits = concurrency
                 /\ \A i \in 0..(total - 1) : Settled(i))
    /\ []((pc = "collect" \/ next > 0)
            => permits + Cardinality({i \in Idx : Holding(i)}) = concurrency)
    /\ [][(pc = "collect" /\ pc' # "collect")
             => (next = total /\ permits = concurrency
                    /\ \A i \in 0..(total - 1) : Settled(i))]_vars
    /\ [][\A i \in Idx : (Holding(i) /\ ~Holding(i)')
             => (Settled(i)' /\ permits' = permits + 1)]_vars
    /\ [][(pc \in {"failed", "done"}) => (pc' = pc /\ jobErr' = jobErr)]_vars

\* one permit, two tasks of an encrypted playlist: one failed at its write,
\* the other succeeded, the permit is back and the job has its result
C17_Witness ==
    /\ concurrency = 1 /\ total = 2 /\ permits = 1
    /\ pc = "failed" /\ errSeg # 0
    /\ key.some
    /\ \E i, j \in Idx : tpc[i] = "err" /\ terr[i] = "write" /\ tpc[j] = "ok"


\* with retries = 0 no segment GET is issued, a task that gets its permit
\* fails at once with the exhaustion error, and a job with at least one
\* segment never creates the merged output
RetriesZeroSafety ==
    /\ [](retries = 0
            => \A i \in Idx :
                  /\ gets[i] = 0 /\ attempt[i] = 0 /\ sleeps[i] = 0 /\ writes[i] = 0
                  /\ tpc[i] \in {"idle", "acquire", "err"}
                  /\ tpc[i] = "err" => terr[i] = "exhausted")
    /\ []((retries = 0 /\ total >= 1)
            => (temp_ts \notin DOMAIN fsys /\ ~dlOk /\ ~converted
                  /\ pc \notin {"create", "merge", "convert", "cleanup", "done"}))

\* C18 (as claimed): with retries = 0, RetriesZeroSafety holds and every job
\* with at least one segment fails, whatever the concurrency.
C18_RetriesZeroFails ==
    /\ RetriesZeroSafety
    /\ (retries = 0 /\ total >= 1) ~> (pc = "failed")

\* C18 (amended): with retries = 0, RetriesZeroSafety holds and every job with
\* at least one segment and concurrency >= 1 fails.
C18_RetriesZeroFailsWithSlots ==
    /\ RetriesZeroSafety
    /\ (retries = 0 /\ total >= 1 /\ concurrency >= 1) ~> (pc = "failed")

\* two segments, both tasks failed without a GET, the job failed on exhaustion
C18_Witness ==
    /\ retries = 0 /\ total = 2
    /\ pc = "failed" /\ jobErr = "exhausted"
    /\ \A i \in Idx : tpc[i] = "err" /\ terr[i] = "exhausted" /\ gets[i] = 0
    /\ temp_ts \notin DOMAIN fsys


\* C19: with concurrency = 0 the controller pulls no task from the stream and
\* no task starts, so no segment GET is issued, nothing is written, and the
\* controller, once it collects, never leaves that phase: the download
\* produces neither success nor failure.
C19_ZeroConcurrency ==
    /\ [](concurrency = 0
            => /\ next = 0 /\ inq = {} /\ tasks = <<>> /\ ready = <<>>
               /\ ~streamDone /\ errSeg = 0 /\ firstErr = 0 /\ ~dlOk
               /\ \A i \in Idx : tpc[i] = "idle" /\ gets[i] = 0
               /\ DOMAIN fsys = {})
    /\ []((concurrency = 0 /\ pc = "collect") => (permits = 0 /\ jobErr = "none"))
    /\ [][(concurrency = 0 /\ pc = "collect") => pc' = "collect"]_vars

\* a two-segment job with concurrency = 0, stuck in the collect phase
C19_Witness ==
    /\ concurrency = 0 /\ pc = "collect" /\ total = 2
    /\ next = 0 /\ \A i \in Idx : tpc[i] = "idle"

\* C20 (as claimed): the transcoding step runs only after download_and_merge
\* has returned Ok in the same run.
C20_TranscodeAfterMerge ==
    (pc \in {"convert", "cleanup", "done"} \/ converted) => (dlStarted /\ dlOk)

====
